---------------------------- MODULE Spec2Model ----------------------------
(***************************************************************************)
(* A model of the read-aloud serverless handler:                          *)
(*   - the synthesize_chunk orchestration of handler() in                 *)
(*     src/serverless/handler/main.py (specification Spec),               *)
(*   - handler() from its first line, both operations                     *)
(*     (specification HandlerSpec),                                       *)
(*   - the segmenters of utils/cleaning.py (specification SegSpec),       *)
(*   - the normalizer of utils/cleaning.py (specification CleanSpec),     *)
(*   - the heuristic timing estimator of utils/alignment.py               *)
(*     (specification AlignSpec).                                         *)
(* Text is a sequence of Unicode code points.  Time is in milliseconds    *)
(* since t0 (main.py line 114).                                           *)
(***************************************************************************)
EXTENDS Integers, Sequences, FiniteSets, TLC

VARIABLES
  \* ---- handler(), op = "synthesize_chunk"
  pc,            \* position of the handler in main.py
  now,           \* time.time() - t0, in ms
  budget_ms,     \* CHUNK_TIMEOUT_MS
  text,          \* input_data["text"]
  sample_rate,   \* input_data["sample_rate"]
  cleaned_text,  \* clean_text_for_tts(text)
  ttsFut,        \* the future of _run_tts
  ttsRes,        \* what kokoro.synthesize returned or raised
  ttsTimeout,    \* the timeout given to fut.result at line 157, in ms
  ttsSubmitAt,   \* now at line 157
  ttsWait,       \* how fut.result at line 157 ended
  audio,         \* the handler's audio
  tts_error,     \* the handler's tts_error
  alignFut,      \* the future of _run_align
  alignRes,      \* what align_words_ctc returned
  alignTimeout,  \* the timeout given to fut.result at line 199, in ms
  alignSubmitAt, \* now at line 199
  alignWait,     \* how fut.result at line 199 ended
  response,      \* what handler() returned
  kokoro,        \* how get_kokoro_tts() of line 127 ended
  w2v2_model,    \* how get_wav2vec2_alignment_components() of line 128 ended
  \* ---- segmenter
  segPc,               \* position in segment_text_only / clean_and_segment_text
  seg_fn,              \* the segmenter called: segment_text_only or clean_and_segment_text
  seg_text,            \* its raw_text
  max_paragraph_chars,
  paragraphs,          \* what _split_into_paragraphs returned
  chunks,              \* what _greedy_chunk returned
  segResult,           \* what _enforce_min_chunk_length returned
  \* ---- align_words_ctc
  alPc, transcript_text, audio_pcm, alSampleRate, duration_ms, alTimings,
  \* ---- clean_text_for_tts
  clPc,          \* position: before, between and after two calls
  cl_raw_text,   \* raw_text of the first call
  clean_once,    \* clean_text_for_tts(raw_text)
  clean_twice,   \* clean_text_for_tts(clean_once)
  \* ---- handler(), lines 38-122: dispatch and validation of the request
  reqPc,         \* position of the handler
  event,         \* the argument of handler()
  input_data,    \* input_data of line 39
  prep_raw_text  \* raw_text of lines 60-81

orchVars == <<pc, now, budget_ms, text, sample_rate, cleaned_text, ttsFut, ttsRes,
              ttsTimeout, ttsSubmitAt, ttsWait, audio, tts_error, alignFut,
              alignRes, alignTimeout, alignSubmitAt, alignWait, response,
              kokoro, w2v2_model>>
segVars == <<segPc, seg_fn, seg_text, max_paragraph_chars, paragraphs, chunks, segResult>>
alVars == <<alPc, transcript_text, audio_pcm, alSampleRate, duration_ms, alTimings>>
clVars == <<clPc, cl_raw_text, clean_once, clean_twice>>
reqVars == <<reqPc, event, input_data, prep_raw_text>>
vars == <<orchVars, segVars, alVars, clVars, reqVars>>

---------------------------------------------------------------------------
(* Generic helpers: Python's max/min, None, str methods.                   *)

Max(a, b) == IF a >= b THEN a ELSE b
Min(a, b) == IF a <= b THEN a ELSE b

\* Optional values: None is the empty sequence, a value v is <<v>>.
None == <<>>
Some(v) == <<v>>

\* str.isspace() of one character (the code points Python treats as white space).
WhitespaceChars ==
  {9, 10, 11, 12, 13, 28, 29, 30, 31, 32, 133, 160, 5760, 8232, 8233, 8239, 8287, 12288}
    \cup (8192..8202)
IsSpace(c) == c \in WhitespaceChars

\* \w of Python's re with re.UNICODE, on the code points below 592.
WordChars ==
  (48..57) \cup (65..90) \cup {95} \cup (97..122) \cup {170, 178, 179, 181, 185, 186}
    \cup (188..190) \cup (192..214) \cup (216..246) \cup (248..591)
IsWordChar(c) == c \in WordChars

\* the positions 1..Len(s), as a sequence
Positions(s) == [i \in 1..Len(s) |-> i]

\* str.strip(): without the leading and trailing white space
Strip(s) ==
  IF \A i \in 1..Len(s) : IsSpace(s[i]) THEN <<>>
  ELSE LET first == CHOOSE i \in 1..Len(s) :
                      ~IsSpace(s[i]) /\ \A j \in 1..(i - 1) : IsSpace(s[j])
           last == CHOOSE i \in 1..Len(s) :
                     ~IsSpace(s[i]) /\ \A j \in (i + 1)..Len(s) : IsSpace(s[j])
       IN SubSeq(s, first, last)

\* sep.join(parts)
RECURSIVE Join(_, _)
Join(parts, sep) ==
  IF parts = <<>> THEN <<>>
  ELSE IF Len(parts) = 1 THEN parts[1]
  ELSE parts[1] \o sep \o Join(Tail(parts), sep)

\* the end (inclusive) of the maximal run of characters of S that starts at i;
\* i - 1 when s[i] is not in S
RunEnd(s, i, S) ==
  CHOOSE e \in (i - 1)..Len(s) :
    /\ (e = Len(s) \/ s[e + 1] \notin S)
    /\ \A k \in i..e : s[k] \in S

\* the start of the maximal run of characters of S that ends at i, s[i] in S
RunStart(s, i, S) ==
  CHOOSE b \in 1..i :
    /\ (b = 1 \/ s[b - 1] \notin S)
    /\ \A k \in b..i : s[k] \in S

\* re.sub of the pattern [S]{k,} by the string r, Len(r) <= k: of a run of at least
\* k characters of S the first Len(r) positions stay, holding r; all else stays
SubRuns(s, S, k, r) ==
  LET Long(i) == s[i] \in S /\ RunEnd(s, i, S) - RunStart(s, i, S) + 1 >= k
      Stays(i) == Long(i) => i - RunStart(s, i, S) + 1 <= Len(r)
      kept == SelectSeq(Positions(s), Stays)
  IN [j \in 1..Len(kept) |->
        IF Long(kept[j]) THEN r[kept[j] - RunStart(s, kept[j], S) + 1] ELSE s[kept[j]]]

\* str.split(): the maximal runs of non-white-space characters
SplitWords(s) ==
  LET Starts(i) == ~IsSpace(s[i]) /\ (i = 1 \/ IsSpace(s[i - 1]))
      starts == SelectSeq(Positions(s), Starts)
      NonSpace == {s[i] : i \in 1..Len(s)} \ WhitespaceChars
  IN [j \in 1..Len(starts) |-> SubSeq(s, starts[j], RunEnd(s, starts[j], NonSpace))]

---------------------------------------------------------------------------
(* utils/alignment.py                                                      *)

\* a variant whose tokens are the runs between blanks
TokenizeWithSpans_BlankSeparated(t) ==
  LET NonBlank == {t[i] : i \in 1..Len(t)} \ {32}
      Starts(i) == t[i] # 32 /\ (i = 1 \/ t[i - 1] = 32)
      starts == SelectSeq(Positions(t), Starts)
  IN [j \in 1..Len(starts) |->
        [word |-> SubSeq(t, starts[j], RunEnd(t, starts[j], NonBlank)),
         char_start |-> starts[j] - 1,
         char_end |-> RunEnd(t, starts[j], NonBlank)]]

\* _tokenize_with_spans: re.finditer(r"\b\w+\b", text) gives the maximal runs of
\* word characters, in order, with 0-based half-open spans
TokenizeWithSpans(t) ==
  LET Starts(i) == IsWordChar(t[i]) /\ (i = 1 \/ ~IsWordChar(t[i - 1]))
      starts == SelectSeq(Positions(t), Starts)
  IN [j \in 1..Len(starts) |->
        [word |-> SubSeq(t, starts[j], RunEnd(t, starts[j], WordChars)),
         char_start |-> starts[j] - 1,
         char_end |-> RunEnd(t, starts[j], WordChars)]]

\* int((len(audio_pcm) / max(1, sample_rate)) * 1000), alignment.py line 37.  The
\* quotient and the product are rounded to binary64: when len*1000 is a multiple of
\* the rate and len is not, the product can fall just below the integer and int()
\* then gives one less (24024 samples at 24000 Hz give 1000); both are outcomes.
DurationMsOutcomes(n, sr) ==
  LET m == Max(1, sr)
      q == (n * 1000) \div m
  IN IF (n * 1000) % m = 0 /\ n % m # 0 THEN {q - 1, q} ELSE {q}

\* a variant that derives start_ms from a running per-word step rounded up
TimingEntry_RunningStep(tok, i, n, d) ==
  [word |-> tok.word,
   start_ms |-> i * ((d + n - 1) \div n),
   end_ms |-> ((i + 1) * d) \div n,
   char_start |-> tok.char_start,
   char_end |-> tok.char_end]

\* alignment.py lines 45-55: the entry of token i (0-based) of n over d ms
TimingEntry(tok, i, n, d) ==
  [word |-> tok.word,
   start_ms |-> (i * d) \div n,
   end_ms |-> ((i + 1) * d) \div n,
   char_start |-> tok.char_start,
   char_end |-> tok.char_end]

\* alignment.py lines 57-61
ClampTiming(t, d) ==
  LET e1 == IF t.end_ms < t.start_ms THEN t.start_ms ELSE t.end_ms
      e2 == IF e1 > d THEN d ELSE e1
  IN [t EXCEPT !.end_ms = e2]

\* align_words_ctc, given the value d that line 37 computes when it is reached
AlignWordsCtc(t, pcm, sr, d) ==
  IF pcm = None \/ sr <= 0 THEN <<>>
  ELSE LET tokens == TokenizeWithSpans(t)
           n == Len(tokens)
       IN IF n = 0 \/ d <= 0 THEN <<>>
          ELSE [k \in 1..n |-> ClampTiming(TimingEntry(tokens[k], k - 1, n, d), d)]

\* the values line 37 can give for an audio buffer (None: the line is not reached)
DurationsOf(pcm, sr) ==
  IF pcm = None \/ sr <= 0 THEN {0} ELSE DurationMsOutcomes(pcm[1], sr)

---------------------------------------------------------------------------
(* utils/cleaning.py: the normalizer                                       *)

\* text.replace("\r\n", "\n").replace("\r", "\n")
UnifyLineEndings(s) ==
  LET Stays(i) == ~(s[i] = 10 /\ i > 1 /\ s[i - 1] = 13)
      kept == SelectSeq(Positions(s), Stays)
  IN [j \in 1..Len(kept) |-> IF s[kept[j]] = 13 THEN 10 ELSE s[kept[j]]]

\* _normalize_whitespace
NormalizeWhitespace(s) ==
  LET t1 == UnifyLineEndings(s)
      t2 == SubRuns(t1, {9, 12, 11}, 1, <<32>>)
      t3 == SubRuns(t2, {32, 160}, 2, <<32>>)
      t4 == SubRuns(t3, {10}, 3, <<10, 10>>)
  IN Strip(t4)

\* _strip_markdown_formatting.  Each pattern of lines 109-154 needs one of the
\* characters ` ~ [ ] ( # * _ > < or a line that starts, after white space, with
\* - * + or with digits and a full stop, followed by white space.  The texts of the
\* model hold "[" only as "[3]" before a line end, and none of the rest, in the
\* input and after a first cleaning: no pattern matches and the text is returned.
StripMarkdownFormatting(s) == s

\* the character class of lines 166-181
IsEmoji(c) ==
  LET In(lo, hi) == lo <= c /\ c <= hi
  IN \/ In(128512, 128591)
     \/ In(127744, 128511)
     \/ In(128640, 128767)
     \/ In(128768, 128895)
     \/ In(128896, 129023)
     \/ In(129024, 129279)
     \/ In(129280, 129535)
     \/ In(129536, 129647)
     \/ In(129648, 129791)
     \/ In(9986, 10160)
     \/ In(9410, 127569)
     \/ c = 126980
     \/ c = 127183
     \/ In(127344, 127569)

\* _strip_emojis
StripEmojis(s) ==
  LET Kept(c) == ~IsEmoji(c)
  IN SelectSeq(s, Kept)

\* the concatenation of the pieces: "".join(pieces)
Concat(pieces) == Join(pieces, <<>>)

\* _LIGATURES_MAP and _SYMBOLS_MAP, lines 18-33
SymbolText(c) ==
  CASE c = 64257 -> <<102, 105>>
    [] c = 64258 -> <<102, 108>>
    [] c = 64256 -> <<102, 102>>
    [] c = 64259 -> <<102, 102, 105>>
    [] c = 64260 -> <<102, 102, 108>>
    [] c = 177 -> <<43, 47, 45>>
    [] c = 181 -> <<109, 105, 99, 114, 111>>
    [] c = 945 -> <<97, 108, 112, 104, 97>>
    [] c = 946 -> <<98, 101, 116, 97>>
    [] c = 947 -> <<103, 97, 109, 109, 97>>
    [] c = 215 -> <<120>>
    [] OTHER -> <<c>>

\* _normalize_ligatures_and_symbols: no replacement maps a character to a text that
\* holds a character of the maps, so the replacements act on each character alone
NormalizeLigaturesAndSymbols(s) ==
  IF \A i \in 1..Len(s) : SymbolText(s[i]) = <<s[i]>> THEN s
  ELSE Concat([i \in 1..Len(s) |-> SymbolText(s[i])])

\* whether the match of (\w+)-\n(\w+) that joins the words around the hyphen at i
\* is made by re.sub: the hyphen stands between two word characters with the line
\* break, and the word before it was not used up by a match at the hyphen before
\* (the search goes on after the second word of a match)
RECURSIVE HyphenJoined(_, _)
HyphenJoined(s, i) ==
  /\ i > 1 /\ i + 2 <= Len(s)
  /\ s[i] = 45 /\ s[i + 1] = 10
  /\ IsWordChar(s[i - 1]) /\ IsWordChar(s[i + 2])
  /\ LET b == RunStart(s, i - 1, WordChars)
     IN ~(b >= 4 /\ s[b - 1] = 10 /\ HyphenJoined(s, b - 2))

\* _fix_hyphenation
FixHyphenation(s) ==
  LET Kept(i) == ~(HyphenJoined(s, i) \/ (i > 1 /\ HyphenJoined(s, i - 1)))
      kept == SelectSeq(Positions(s), Kept)
  IN [j \in 1..Len(kept) |-> s[kept[j]]]

\* the line boundaries of str.splitlines()
LineBreakChars == {10, 11, 12, 13, 28, 29, 30, 133, 8232, 8233}

\* str.splitlines(): "\r\n" is one boundary, a boundary at the end opens no line
SplitLines(s) ==
  LET Ends(i) == s[i] \in LineBreakChars /\ ~(s[i] = 13 /\ i < Len(s) /\ s[i + 1] = 10)
      LineStart(i) == i = 1 \/ Ends(i - 1)
      starts == SelectSeq(Positions(s), LineStart)
      InLine == {s[i] : i \in 1..Len(s)} \ LineBreakChars
  IN [j \in 1..Len(starts) |-> SubSeq(s, starts[j], RunEnd(s, starts[j], InLine))]

\* \d, on ASCII
IsDigit(c) == c \in 48..57
AllDigits(x) == x # <<>> /\ \A i \in 1..Len(x) : IsDigit(x[i])

\* the lower case of re.IGNORECASE, on ASCII
Lower(c) == IF c \in 65..90 THEN c + 32 ELSE c

\* x starts with the lower-case word w, whatever the case of x
StartsWithIgnoreCase(x, w) ==
  Len(x) >= Len(w) /\ \A i \in 1..Len(w) : Lower(x[i]) = w[i]

\* re.fullmatch(r"page\s+\d+", x, flags=re.IGNORECASE), line 57
IsPageMarker(x) ==
  /\ StartsWithIgnoreCase(x, <<112, 97, 103, 101>>)
  /\ \E k \in 5..(Len(x) - 1) :
       /\ \A i \in 5..k : IsSpace(x[i])
       /\ AllDigits(SubSeq(x, k + 1, Len(x)))

\* _strip_headers_footers
StripHeadersFooters(s) ==
  LET lines == SplitLines(s)
      NoMarker(ln) == ~IsPageMarker(Strip(ln)) /\ ~AllDigits(Strip(ln))
      cleaned == SelectSeq(lines, NoMarker)
      Freq(key) == Cardinality({i \in 1..Len(cleaned) : Strip(cleaned[i]) = key})
      NotRepeated(ln) ==
        ~(Strip(ln) # <<>> /\ Len(Strip(ln)) <= 80 /\ Freq(Strip(ln)) >= 3)
  IN Join(SelectSeq(cleaned, NotRepeated), <<10>>)

\* \b after the k first characters of x
BoundaryAfter(x, k) ==
  IF k = Len(x) THEN IsWordChar(x[k]) ELSE IsWordChar(x[k]) # IsWordChar(x[k + 1])

\* the words of the pattern of line 77: figure, table, fig.
CaptionWords ==
  {<<102, 105, 103, 117, 114, 101>>, <<116, 97, 98, 108, 101>>, <<102, 105, 103, 46>>}

\* pattern.match(x) of line 78: ^(figure|table|fig\.)\b.* with re.IGNORECASE
IsCaption(x) ==
  \E w \in CaptionWords : StartsWithIgnoreCase(x, w) /\ BoundaryAfter(x, Len(w))

\* _strip_figure_table_noise
StripFigureTableNoise(s) ==
  LET NoCaption(ln) == ~IsCaption(Strip(ln))
  IN Join(SelectSeq(SplitLines(s), NoCaption), <<10>>)

\* _map_simple_inline_citations: "[", one to three digits, "]" becomes
\* "reference " and the digits
MapSimpleInlineCitations(s) ==
  LET Close(i, k) == i + k + 1 <= Len(s) /\ s[i + k + 1] = 93
                       /\ AllDigits(SubSeq(s, i + 1, i + k))
      Opens(i) == s[i] = 91 /\ \E k \in 1..3 : Close(i, k)
      Closes(j) == s[j] = 93 /\ \E k \in 1..3 : j - k - 1 >= 1 /\ s[j - k - 1] = 91
                                                /\ Close(j - k - 1, k)
      Piece(i) == IF Opens(i) THEN <<114, 101, 102, 101, 114, 101, 110, 99, 101, 32>>
                  ELSE IF Closes(i) THEN <<>> ELSE <<s[i]>>
  IN IF \A i \in 1..Len(s) : s[i] # 91 THEN s
     ELSE Concat([i \in 1..Len(s) |-> Piece(i)])

\* clean_text_for_tts: the stages of lines 190-199 in their order
CleanTextForTts(raw_text) ==
  NormalizeWhitespace(
    MapSimpleInlineCitations(
      StripFigureTableNoise(
        StripHeadersFooters(
          FixHyphenation(
            NormalizeLigaturesAndSymbols(
              StripEmojis(
                StripMarkdownFormatting(raw_text))))))))

---------------------------------------------------------------------------
(* main.py: handler(), op = "synthesize_chunk"                             *)

\* bounds of the model
MaxNow == 3000
MaxWordsInText == 30

\* program constants
MsPerSecond == 1000
MinTimeoutSeconds == 1
CharsPerSecond == 14
MinFallbackSeconds == 1
MaxFallbackSeconds == 6

\* the inputs of the model
Budgets == {500, 2500}
Delays == {500, 1500}
SampleRates == {8000, 24000}
TtsAudioLens == {0, 12000}

\* all_tokens of _KokoroWrapper.synthesize, model_loader.py lines 107-129: no token
\* (line 136), or the one token "ab" from 50 ms to 300 ms
NativeTokenLists ==
  {<<>>, <<[text |-> <<97, 98>>, start_ms |-> 50, end_ms |-> 300]>>}

\* k times the word "ab", separated by single blanks
Words(k) == [i \in 1..(3 * k - 1) |-> IF i % 3 = 0 THEN 32 ELSE 96 + (i % 3)]

\* "ab", ten words (29 characters), MaxWordsInText words, and "ab  ab " with a
\* double and a trailing blank
Texts == {Words(1), Words(10), Words(MaxWordsInText), <<97, 98, 32, 32, 97, 98, 32>>}

\* _err
Err(code, message) == [ok |-> FALSE, code |-> code, message |-> message]

\* the body of lines 214-227
OkBody(a, sr, t, warning) ==
  [ok |-> TRUE, audio |-> Some(a), sample_rate |-> sr, timings |-> t,
   tts_warning |-> warning]

\* remaining_ms(t0), lines 137-139
RemainingMs == Max(0, budget_ms - now)

\* the timeout of fut.result, lines 157 and 199, in ms:
\* max(1, remaining_ms(t0) / 1000.0) seconds
StageTimeoutMs == Max(MinTimeoutSeconds * MsPerSecond, RemainingMs)

\* int(max(1.0, min(6.0, len(text) / 14.0)) * sample_rate), lines 182-183.  The
\* quotient and the product are rounded to binary64, so that int() can give one less
\* than the exact value when len * sample_rate is a multiple of 14 and len is not.
FallbackSamplesOutcomes(n, sr) ==
  IF n <= MinFallbackSeconds * CharsPerSecond THEN {MinFallbackSeconds * sr}
  ELSE IF n >= MaxFallbackSeconds * CharsPerSecond THEN {MaxFallbackSeconds * sr}
  ELSE LET q == (n * sr) \div CharsPerSecond
       IN IF (n * sr) % CharsPerSecond = 0 /\ n % CharsPerSecond # 0
          THEN {q - 1, q} ELSE {q}

\* `if tts_error:` of line 223
Truthy(e) == e # None /\ e # Some("")

\* body["tts_warning"], lines 223-224
TtsWarning(e) == IF Truthy(e) THEN e ELSE None

\* resample_poly(audio, sample_rate, out_sr): ceil(n * up / down) samples
ResampledLen(n, up, down) == (n * up + down - 1) \div down

OrchIdle ==
  /\ pc = "idle" /\ now = 0 /\ budget_ms = 0 /\ text = <<>> /\ sample_rate = 0
  /\ cleaned_text = <<>> /\ ttsFut = "none" /\ ttsRes = None /\ ttsTimeout = 0
  /\ ttsSubmitAt = 0 /\ ttsWait = "none" /\ audio = None /\ tts_error = None
  /\ alignFut = "none" /\ alignRes = None /\ alignTimeout = 0 /\ alignSubmitAt = 0
  /\ alignWait = "none" /\ response = None
  /\ kokoro = "unloaded" /\ w2v2_model = "unloaded"

\* a synthesize_chunk request that passed validation, at line 114
OrchInit ==
  /\ pc = "start" /\ now = 0
  /\ budget_ms \in Budgets /\ text \in Texts /\ sample_rate \in SampleRates
  /\ cleaned_text = <<>> /\ ttsFut = "none" /\ ttsRes = None /\ ttsTimeout = 0
  /\ ttsSubmitAt = 0 /\ ttsWait = "none" /\ audio = None /\ tts_error = None
  /\ alignFut = "none" /\ alignRes = None /\ alignTimeout = 0 /\ alignSubmitAt = 0
  /\ alignWait = "none" /\ response = None
  /\ kokoro = "unloaded" /\ w2v2_model = "unloaded"

\* time passes while the handler cleans the text and loads the models, while a
\* worker runs, and between the two stages.  A waiting fut.result wakes up at its
\* deadline at the latest.
Tick ==
  /\ now < MaxNow
  /\ \E d \in Delays :
       \/ /\ pc \in {"load", "align_submit"}
          /\ now' = now + d
       \/ /\ pc = "tts_wait" /\ ttsFut = "running" /\ now < ttsSubmitAt + ttsTimeout
          /\ now' = Min(now + d, ttsSubmitAt + ttsTimeout)
       \/ /\ pc = "align_wait" /\ alignFut = "running"
          /\ now < alignSubmitAt + alignTimeout
          /\ now' = Min(now + d, alignSubmitAt + alignTimeout)
       \/ /\ pc = "tts_join" /\ ttsFut = "running"
          /\ now' = now + d
       \/ /\ pc = "align_join" /\ alignFut = "running"
          /\ now' = now + d
  /\ UNCHANGED <<pc, budget_ms, text, sample_rate, cleaned_text, ttsFut, ttsRes,
                 ttsTimeout, ttsSubmitAt, ttsWait, audio, tts_error, alignFut,
                 alignRes, alignTimeout, alignSubmitAt, alignWait, response>>
  /\ UNCHANGED <<kokoro, w2v2_model, segVars, alVars, clVars, reqVars>>

\* line 123
HandlerClean ==
  /\ pc = "start"
  /\ cleaned_text' = CleanTextForTts(text)
  /\ pc' = "load"
  /\ UNCHANGED <<now, budget_ms, text, sample_rate, ttsFut, ttsRes, ttsTimeout,
                 ttsSubmitAt, ttsWait, audio, tts_error, alignFut, alignRes,
                 alignTimeout, alignSubmitAt, alignWait, response>>
  /\ UNCHANGED <<kokoro, w2v2_model, segVars, alVars, clVars, reqVars>>

\* a variant that goes on to the synthesis when the alignment components fail to load
HandlerLoadModels_Degrade ==
  /\ pc = "load"
  /\ kokoro' = "loaded"
  /\ w2v2_model' \in {"loaded", "failed"}
  /\ pc' = "tts_submit"
  /\ UNCHANGED <<now, budget_ms, text, sample_rate, cleaned_text, ttsFut, ttsRes,
                 ttsTimeout, ttsSubmitAt, ttsWait, audio, tts_error, alignFut,
                 alignRes, alignTimeout, alignSubmitAt, alignWait, response>>
  /\ UNCHANGED <<segVars, alVars, clVars, reqVars>>

\* lines 126-130: both loaders return, or get_kokoro_tts raises, or it returns and
\* get_wav2vec2_alignment_components raises
HandlerLoadModels ==
  /\ pc = "load"
  /\ \/ /\ kokoro' = "loaded" /\ w2v2_model' = "loaded"
        /\ pc' = "tts_submit"
        /\ UNCHANGED response
     \/ /\ kokoro' = "failed" /\ w2v2_model' = "unloaded"
        /\ pc' = "done"
        /\ response' = Some(Err("ModelLoad", "kokoro"))
     \/ /\ kokoro' = "loaded" /\ w2v2_model' = "failed"
        /\ pc' = "done"
        /\ response' = Some(Err("ModelLoad", "w2v2"))
  /\ UNCHANGED <<now, budget_ms, text, sample_rate, cleaned_text, ttsFut, ttsRes,
                 ttsTimeout, ttsSubmitAt, ttsWait, audio, tts_error, alignFut,
                 alignRes, alignTimeout, alignSubmitAt, alignWait>>
  /\ UNCHANGED <<segVars, alVars, clVars, reqVars>>

\* lines 155-157: submit _run_tts and enter fut.result with the timeout
HandlerSubmitTts ==
  /\ pc = "tts_submit"
  /\ ttsTimeout' = StageTimeoutMs
  /\ ttsSubmitAt' = now
  /\ ttsFut' = "running"
  /\ pc' = "tts_wait"
  /\ UNCHANGED <<now, budget_ms, text, sample_rate, cleaned_text, ttsRes, ttsWait,
                 audio, tts_error, alignFut, alignRes, alignTimeout, alignSubmitAt,
                 alignWait, response>>
  /\ UNCHANGED <<kokoro, w2v2_model, segVars, alVars, clVars, reqVars>>

\* kokoro.synthesize returns: bare audio, (audio, sample_rate), or the loader
\* wrapper's (audio, sample_rate, tokens) of model_loader.py lines 135-139
TtsWorkerReturn ==
  /\ ttsFut = "running"
  /\ \E shape \in {"bare", "pair", "triple"}, n \in TtsAudioLens :
       \E sr \in (IF shape = "bare" THEN {sample_rate} ELSE {sample_rate, 24000}),
          toks \in (IF shape = "triple" THEN NativeTokenLists ELSE {<<>>}) :
         ttsRes' = Some([shape |-> shape, samples |-> n, out_sr |-> sr, msg |-> "",
                         tokens |-> toks])
  /\ ttsFut' = "result"
  /\ UNCHANGED <<pc, now, budget_ms, text, sample_rate, cleaned_text, ttsTimeout,
                 ttsSubmitAt, ttsWait, audio, tts_error, alignFut, alignRes,
                 alignTimeout, alignSubmitAt, alignWait, response>>
  /\ UNCHANGED <<kokoro, w2v2_model, segVars, alVars, clVars, reqVars>>

\* kokoro.synthesize raises an exception whose str() is msg
TtsWorkerRaise ==
  /\ ttsFut = "running"
  /\ \E m \in {"", "boom"} :
       ttsRes' = Some([shape |-> "raise", samples |-> 0, out_sr |-> 0, msg |-> m,
                       tokens |-> <<>>])
  /\ ttsFut' = "exception"
  /\ UNCHANGED <<pc, now, budget_ms, text, sample_rate, cleaned_text, ttsTimeout,
                 ttsSubmitAt, ttsWait, audio, tts_error, alignFut, alignRes,
                 alignTimeout, alignSubmitAt, alignWait, response>>
  /\ UNCHANGED <<kokoro, w2v2_model, segVars, alVars, clVars, reqVars>>

\* lines 180-185: the fallback silence and the warning, for an exception with str() m
Fallback(m) ==
  /\ \E n \in FallbackSamplesOutcomes(Len(text), sample_rate) :
       audio' = Some([kind |-> "silence", samples |-> n])
  /\ tts_error' = Some(m)

\* fut.result of line 157 returns or re-raises what the worker raised; lines 158-177
\* and 180-185
HandlerTtsResult ==
  /\ pc = "tts_wait"
  /\ ttsFut \in {"result", "exception"}
  /\ LET r == ttsRes[1]
     IN \/ /\ r.shape = "raise"
           /\ Fallback(r.msg)
        \/ /\ r.shape = "triple"
           \* line 161 takes the 3-tuple for the audio and np.asarray of line 167
           \* raises ValueError on it
           /\ Fallback("inhomogeneous")
        \/ /\ r.shape = "bare"
           /\ audio' = Some([kind |-> "synth", samples |-> r.samples])
           /\ UNCHANGED tts_error
        \/ /\ r.shape = "pair"
           /\ \/ r.out_sr = sample_rate /\ audio' = Some([kind |-> "synth", samples |-> r.samples])
              \/ /\ r.out_sr # sample_rate
                 \* lines 169-177: resampled, or resample_poly fails and nothing changes
                 /\ \/ audio' = Some([kind |-> "synth",
                                      samples |-> ResampledLen(r.samples, sample_rate, r.out_sr)])
                    \/ audio' = Some([kind |-> "synth", samples |-> r.samples])
           /\ UNCHANGED tts_error
  /\ ttsWait' = "completed"
  /\ pc' = "align_submit"
  /\ UNCHANGED <<now, budget_ms, text, sample_rate, cleaned_text, ttsFut, ttsRes,
                 ttsTimeout, ttsSubmitAt, alignFut, alignRes, alignTimeout,
                 alignSubmitAt, alignWait, response>>
  /\ UNCHANGED <<kokoro, w2v2_model, segVars, alVars, clVars, reqVars>>

\* fut.result of line 157 raises FuturesTimeout: the worker has not finished when
\* the timeout has elapsed.  The exception leaves the with block of line 155.
HandlerTtsTimeout ==
  /\ pc = "tts_wait"
  /\ ttsFut = "running"
  /\ now >= ttsSubmitAt + ttsTimeout
  /\ ttsWait' = "timed_out"
  /\ pc' = "tts_join"
  /\ UNCHANGED <<now, budget_ms, text, sample_rate, cleaned_text, ttsFut, ttsRes,
                 ttsTimeout, ttsSubmitAt, audio, tts_error, alignFut, alignRes,
                 alignTimeout, alignSubmitAt, alignWait, response>>
  /\ UNCHANGED <<kokoro, w2v2_model, segVars, alVars, clVars, reqVars>>

\* a variant that treats the timeout like any other synthesis failure
HandlerTtsJoin_Degrade ==
  /\ pc = "tts_join"
  /\ ttsFut # "running"
  /\ Fallback("tts_timeout")
  /\ pc' = "align_submit"
  /\ UNCHANGED <<now, budget_ms, text, sample_rate, cleaned_text, ttsFut, ttsRes,
                 ttsTimeout, ttsSubmitAt, ttsWait, alignFut, alignRes, alignTimeout,
                 alignSubmitAt, alignWait, response>>
  /\ UNCHANGED <<kokoro, w2v2_model, segVars, alVars, clVars, reqVars>>

\* ThreadPoolExecutor.__exit__ of line 155 is shutdown(wait=True): it returns when
\* the worker has finished.  Then lines 178-179.
HandlerTtsJoin ==
  /\ pc = "tts_join"
  /\ ttsFut # "running"
  /\ response' = Some(Err("Timeout", "tts_timeout"))
  /\ pc' = "done"
  /\ UNCHANGED <<now, budget_ms, text, sample_rate, cleaned_text, ttsFut, ttsRes,
                 ttsTimeout, ttsSubmitAt, ttsWait, audio, tts_error, alignFut,
                 alignRes, alignTimeout, alignSubmitAt, alignWait>>
  /\ UNCHANGED <<kokoro, w2v2_model, segVars, alVars, clVars, reqVars>>

\* lines 197-199: submit _run_align and enter fut.result with the timeout
HandlerSubmitAlign ==
  /\ pc = "align_submit"
  /\ alignTimeout' = StageTimeoutMs
  /\ alignSubmitAt' = now
  /\ alignFut' = "running"
  /\ pc' = "align_wait"
  /\ UNCHANGED <<now, budget_ms, text, sample_rate, cleaned_text, ttsFut, ttsRes,
                 ttsTimeout, ttsSubmitAt, ttsWait, audio, tts_error, alignRes,
                 alignWait, response>>
  /\ UNCHANGED <<kokoro, w2v2_model, segVars, alVars, clVars, reqVars>>

\* align_words_ctc(cleaned_text, audio, sample_rate, processor, w2v2_model) returns
AlignWorkerReturn ==
  /\ alignFut = "running"
  /\ \E d \in DurationsOf(Some(audio[1].samples), sample_rate) :
       alignRes' = Some(AlignWordsCtc(cleaned_text, Some(audio[1].samples), sample_rate, d))
  /\ alignFut' = "result"
  /\ UNCHANGED <<pc, now, budget_ms, text, sample_rate, cleaned_text, ttsFut, ttsRes,
                 ttsTimeout, ttsSubmitAt, ttsWait, audio, tts_error, alignTimeout,
                 alignSubmitAt, alignWait, response>>
  /\ UNCHANGED <<kokoro, w2v2_model, segVars, alVars, clVars, reqVars>>

\* the alignment worker raises (the stage is a replaceable capability)
AlignWorkerRaise ==
  /\ alignFut = "running"
  /\ alignFut' = "exception"
  /\ UNCHANGED <<pc, now, budget_ms, text, sample_rate, cleaned_text, ttsFut, ttsRes,
                 ttsTimeout, ttsSubmitAt, ttsWait, audio, tts_error, alignRes,
                 alignTimeout, alignSubmitAt, alignWait, response>>
  /\ UNCHANGED <<kokoro, w2v2_model, segVars, alVars, clVars, reqVars>>

\* a variant that answers an alignment failure with empty timings
HandlerAlignResult_NoTimings ==
  /\ pc = "align_wait"
  /\ alignFut \in {"result", "exception"}
  /\ alignWait' = "completed"
  /\ pc' = "encode"
  /\ UNCHANGED <<now, budget_ms, text, sample_rate, cleaned_text, ttsFut, ttsRes,
                 ttsTimeout, ttsSubmitAt, ttsWait, audio, tts_error, alignFut,
                 alignRes, alignTimeout, alignSubmitAt, response>>
  /\ UNCHANGED <<kokoro, w2v2_model, segVars, alVars, clVars, reqVars>>

\* fut.result of line 199 returns the timings, or re-raises and lines 202-203 answer
HandlerAlignResult ==
  /\ pc = "align_wait"
  /\ alignFut \in {"result", "exception"}
  /\ alignWait' = "completed"
  /\ \/ /\ alignFut = "result"
        /\ pc' = "encode"
        /\ UNCHANGED response
     \/ /\ alignFut = "exception"
        /\ response' = Some(Err("AlignError", "align"))
        /\ pc' = "done"
  /\ UNCHANGED <<now, budget_ms, text, sample_rate, cleaned_text, ttsFut, ttsRes,
                 ttsTimeout, ttsSubmitAt, ttsWait, audio, tts_error, alignFut,
                 alignRes, alignTimeout, alignSubmitAt>>
  /\ UNCHANGED <<kokoro, w2v2_model, segVars, alVars, clVars, reqVars>>

\* fut.result of line 199 raises FuturesTimeout
HandlerAlignTimeout ==
  /\ pc = "align_wait"
  /\ alignFut = "running"
  /\ now >= alignSubmitAt + alignTimeout
  /\ alignWait' = "timed_out"
  /\ pc' = "align_join"
  /\ UNCHANGED <<now, budget_ms, text, sample_rate, cleaned_text, ttsFut, ttsRes,
                 ttsTimeout, ttsSubmitAt, ttsWait, audio, tts_error, alignFut,
                 alignRes, alignTimeout, alignSubmitAt, response>>
  /\ UNCHANGED <<kokoro, w2v2_model, segVars, alVars, clVars, reqVars>>

\* ThreadPoolExecutor.__exit__ of line 197 waits for the worker; then lines 200-201
HandlerAlignJoin ==
  /\ pc = "align_join"
  /\ alignFut # "running"
  /\ response' = Some(Err("Timeout", "align_timeout"))
  /\ pc' = "done"
  /\ UNCHANGED <<now, budget_ms, text, sample_rate, cleaned_text, ttsFut, ttsRes,
                 ttsTimeout, ttsSubmitAt, ttsWait, audio, tts_error, alignFut,
                 alignRes, alignTimeout, alignSubmitAt, alignWait>>
  /\ UNCHANGED <<kokoro, w2v2_model, segVars, alVars, clVars, reqVars>>

\* lines 206-241: encode the audio, build and validate the body; a fault of
\* soundfile or of the validation is answered by lines 244-259
HandlerEncode ==
  /\ pc = "encode"
  /\ \/ response' = Some(OkBody(audio[1], sample_rate,
                                IF alignRes = None THEN <<>> ELSE alignRes[1],
                                TtsWarning(tts_error)))
     \/ response' = Some(Err("Internal", "encode"))
  /\ pc' = "done"
  /\ UNCHANGED <<now, budget_ms, text, sample_rate, cleaned_text, ttsFut, ttsRes,
                 ttsTimeout, ttsSubmitAt, ttsWait, audio, tts_error, alignFut,
                 alignRes, alignTimeout, alignSubmitAt, alignWait>>
  /\ UNCHANGED <<kokoro, w2v2_model, segVars, alVars, clVars, reqVars>>

SegIdle ==
  /\ segPc = "idle" /\ seg_fn = "none" /\ seg_text = <<>> /\ max_paragraph_chars = 0
  /\ paragraphs = <<>> /\ chunks = <<>> /\ segResult = <<>>

AlignIdle ==
  /\ alPc = "idle" /\ transcript_text = <<>> /\ audio_pcm = None /\ alSampleRate = 0
  /\ duration_ms = 0 /\ alTimings = <<>>

CleanIdle ==
  clPc = "idle" /\ cl_raw_text = <<>> /\ clean_once = <<>> /\ clean_twice = <<>>

ReqIdle ==
  reqPc = "idle" /\ event = None /\ input_data = None /\ prep_raw_text = <<>>

Init == OrchInit /\ SegIdle /\ AlignIdle /\ CleanIdle /\ ReqIdle

Next ==
  \/ Tick
  \/ HandlerClean
  \/ HandlerLoadModels
  \/ HandlerSubmitTts
  \/ TtsWorkerReturn
  \/ TtsWorkerRaise
  \/ HandlerTtsResult
  \/ HandlerTtsTimeout
  \/ HandlerTtsJoin
  \/ HandlerSubmitAlign
  \/ AlignWorkerReturn
  \/ AlignWorkerRaise
  \/ HandlerAlignResult
  \/ HandlerAlignTimeout
  \/ HandlerAlignJoin
  \/ HandlerEncode

Spec == Init /\ [][Next]_vars

---------------------------------------------------------------------------
(* Properties of synthesize_chunk, checked under Spec                   *)

\* C1: when fut.result of the synthesis stage times out, the only response the
\* handler gives is {ok: false, code: "Timeout"}: there is no fallback audio, no
\* tts_error, and the alignment stage is never started.
C1_SynthTimeoutIsFatal ==
  ttsWait = "timed_out" =>
    /\ alignFut = "none" /\ alignWait = "none"
    /\ audio = None /\ tts_error = None
    /\ response \in {None, Some(Err("Timeout", "tts_timeout"))}
    /\ (pc = "done" => response = Some(Err("Timeout", "tts_timeout")))

\* the synthesis timed out, the worker returned audio afterwards, and the handler
\* has answered
C1_Witness ==
  /\ ttsWait = "timed_out" /\ pc = "done" /\ ttsFut = "result"
  /\ response = Some(Err("Timeout", "tts_timeout"))

\* C2: when the synthesis capability raises (any message, also the empty one) and
\* the alignment then succeeds, the response is ok: true, its audio is all zeros of
\* int(clamp(len(text)/14, 1, 6) * sample_rate) samples at the requested rate, and
\* tts_warning is present and not null.  (A fault of the encoder is left aside.)
C2_FallbackCarriesWarning ==
  ( /\ pc = "done"
    /\ ttsWait = "completed" /\ ttsFut = "exception"
    /\ alignWait = "completed" /\ alignFut = "result"
    /\ response # Some(Err("Internal", "encode")) )
  => /\ response # None
     /\ response[1].ok
     /\ response[1].audio # None
     /\ response[1].audio[1].kind = "silence"
     /\ response[1].audio[1].samples \in FallbackSamplesOutcomes(Len(text), sample_rate)
     /\ response[1].sample_rate = sample_rate
     /\ response[1].tts_warning # None

\* C3: a bounded stage holds the caller only until the stage completes or its
\* timeout elapses: the handler is never still held by a stage whose worker runs
\* on after the timeout given to fut.result has elapsed.
C3_CallerHeldOnlyUntilTimeout ==
  /\ (pc \in {"tts_wait", "tts_join"} /\ ttsFut = "running")
       => now <= ttsSubmitAt + ttsTimeout
  /\ (pc \in {"align_wait", "align_join"} /\ alignFut = "running")
       => now <= alignSubmitAt + alignTimeout

\* C4: each stage's timeout is the budget that remains at its submission, never
\* negative and floored at 1 ms, so that it is at most max(1 ms, remaining budget),
\* and the alignment timeout is at most the synthesis timeout.
C4_TimeoutWithinRemainingBudget ==
  /\ ttsFut # "none" => ttsTimeout <= Max(1, Max(0, budget_ms - ttsSubmitAt))
  /\ alignFut # "none" =>
       /\ alignTimeout <= Max(1, Max(0, budget_ms - alignSubmitAt))
       /\ alignTimeout <= ttsTimeout

\* C5: once there is audio, a timeout of the alignment stage is answered by
\* {ok: false, code: "Timeout"} and any other failure of it by {ok: false,
\* code: "AlignError"}; an ok: true response carries the timings that the completed
\* alignment returned, together with the audio.
C5_AlignmentFailureIsFatal ==
  /\ alignWait = "timed_out" =>
       /\ response \in {None, Some(Err("Timeout", "align_timeout"))}
       /\ (pc = "done" => response = Some(Err("Timeout", "align_timeout")))
  /\ (alignWait = "completed" /\ alignFut = "exception") =>
       (pc = "done" /\ response = Some(Err("AlignError", "align")))
  /\ (response # None /\ response[1].ok) =>
       /\ alignWait = "completed" /\ alignFut = "result"
       /\ alignRes # None /\ response[1].timings = alignRes[1]
       /\ audio # None /\ response[1].audio = audio

\* the alignment of fallback silence timed out and the handler has answered
C5_Witness ==
  /\ pc = "done" /\ alignWait = "timed_out"
  /\ audio # None /\ audio[1].kind = "silence"
  /\ response = Some(Err("Timeout", "align_timeout"))

\* C11: when the synthesis capability returned word tokens with timestamps next to
\* the audio, the timings of the ok response are those tokens, with their
\* timestamps unchanged and character offsets that start at 0 and advance by
\* len(word) + 1 per token; the even split is used only when no tokens were supplied.
C11_NativeTokensPassThrough ==
  LET RECURSIVE Formatted(_, _, _)
      Formatted(toks, k, offset) ==
        IF k > Len(toks) THEN <<>>
        ELSE <<[word |-> toks[k].text, start_ms |-> toks[k].start_ms,
                end_ms |-> toks[k].end_ms, char_start |-> offset,
                char_end |-> offset + Len(toks[k].text)]>>
             \o Formatted(toks, k + 1, offset + Len(toks[k].text) + 1)
  IN (/\ pc = "done" /\ response # None /\ response[1].ok
      /\ ttsRes # None /\ ttsRes[1].shape = "triple" /\ ttsRes[1].tokens # <<>>)
       => response[1].timings = Formatted(ttsRes[1].tokens, 1, 0)

\* C19: when loading the synthesis capability or the alignment capability fails,
\* the response is ModelLoad; neither stage is started, nothing is loaded again
\* and no fallback silence is made.  A ModelLoad response has no other cause.
C19_LoadFailureIsModelLoad ==
  LET failed == kokoro = "failed" \/ w2v2_model = "failed"
  IN /\ failed =>
          /\ pc = "done"
          /\ response \in {Some(Err("ModelLoad", "kokoro")), Some(Err("ModelLoad", "w2v2"))}
          /\ ttsFut = "none" /\ ttsWait = "none"
          /\ alignFut = "none" /\ alignWait = "none"
          /\ audio = None /\ tts_error = None
     /\ kokoro = "failed" => w2v2_model = "unloaded"
     /\ (response # None /\ ~response[1].ok /\ response[1].code = "ModelLoad") => failed

\* the synthesis capability was loaded, the alignment components were not, and the
\* handler has answered
C19_Witness ==
  /\ pc = "done" /\ kokoro = "loaded" /\ w2v2_model = "failed"
  /\ response = Some(Err("ModelLoad", "w2v2"))

\* C20: fallback silence and tts_warning appear only after a synthesis failure:
\* when the capability returned normally within the timeout, as bare audio, as
\* (audio, sample_rate) or as (audio, sample_rate, tokens), the audio of the ok
\* response is the returned audio and there is no tts_warning.
C20_NoDegradationOnNormalReturn ==
  (/\ pc = "done" /\ response # None /\ response[1].ok
   /\ ttsFut = "result" /\ ttsWait = "completed")
    => /\ response[1].audio[1].kind = "synth"
       /\ response[1].tts_warning = None

---------------------------------------------------------------------------
(* align_words_ctc on its own: specification AlignSpec                     *)

\* bound of the model
MaxTranscriptLen == 5

\* "a", blank and apostrophe
AlignAlphabet == {97, 32, 39}
AlignTexts == UNION {[1..n -> AlignAlphabet] : n \in 0..MaxTranscriptLen}
AlignAudioLens == {0, 1, 3, 1600, 24024}
AlignSampleRates == {-1, 0, 1000, 8000, 24000}

AlignInit ==
  /\ alPc = "call"
  /\ transcript_text \in AlignTexts
  /\ audio_pcm \in {None} \cup {Some(n) : n \in AlignAudioLens}
  /\ alSampleRate \in AlignSampleRates
  /\ duration_ms = 0
  /\ alTimings = <<>>

\* one call of align_words_ctc(transcript_text, audio_pcm, sample_rate, _, _)
AlignCall ==
  /\ alPc = "call"
  /\ \E d \in DurationsOf(audio_pcm, alSampleRate) :
       /\ duration_ms' = d
       /\ alTimings' = AlignWordsCtc(transcript_text, audio_pcm, alSampleRate, d)
  /\ alPc' = "returned"
  /\ UNCHANGED <<transcript_text, audio_pcm, alSampleRate>>
  /\ UNCHANGED <<orchVars, segVars, clVars, reqVars>>

AlignSpecInit == OrchIdle /\ SegIdle /\ AlignInit /\ CleanIdle /\ ReqIdle

AlignNext == AlignCall

AlignSpec == AlignSpecInit /\ [][AlignNext]_vars

\* C9: every entry of the estimator's output has 0 <= start_ms <= end_ms <=
\* duration_ms, the duration being at most the audio length in whole milliseconds,
\* and start_ms never decreases along the output.
C9_TimingsWithinDuration ==
  alPc = "returned" =>
    /\ \A k \in 1..Len(alTimings) :
         /\ 0 <= alTimings[k].start_ms
         /\ alTimings[k].start_ms <= alTimings[k].end_ms
         /\ alTimings[k].end_ms <= duration_ms
         /\ duration_ms <= (audio_pcm[1] * 1000) \div alSampleRate
    /\ \A k \in 1..(Len(alTimings) - 1) :
         alTimings[k].start_ms <= alTimings[k + 1].start_ms

\* three words over an audio of 1 ms: more words than milliseconds
C9_Witness ==
  /\ alPc = "returned" /\ Len(alTimings) = 3 /\ duration_ms = 1
  /\ alTimings[3].end_ms = 1

\* the positions where a word of the transcript starts
WordStarts(t) ==
  {i \in 1..Len(t) : IsWordChar(t[i]) /\ (i = 1 \/ ~IsWordChar(t[i - 1]))}

\* C10: with n words and duration d, the output is empty when there is no audio,
\* the rate is not positive, n = 0 or d <= 0; otherwise it has n entries, one per
\* word in transcript order, entry i (from 0) with start_ms = floor(i*d/n) and
\* end_ms = floor((i+1)*d/n): the first starts at 0, each ends where the next
\* starts, the last ends at d; 2 words over 200 ms give [0,100] and [100,200].
C10_EvenSplitReference ==
  alPc = "returned" =>
    LET t == transcript_text
        n == Cardinality(WordStarts(t))
        d == duration_ms
    IN IF audio_pcm = None \/ alSampleRate <= 0 \/ n = 0 \/ d <= 0
       THEN alTimings = <<>>
       ELSE /\ Len(alTimings) = n
            /\ \A k \in 1..n :
                 LET e == alTimings[k]
                 IN /\ e.start_ms = ((k - 1) * d) \div n
                    /\ e.end_ms = (k * d) \div n
                    /\ e.char_start + 1 \in WordStarts(t)
                    /\ Cardinality({i \in WordStarts(t) : i <= e.char_start + 1}) = k
                    /\ e.char_start < e.char_end
                    /\ e.char_end <= Len(t)
                    /\ e.word = SubSeq(t, e.char_start + 1, e.char_end)
                    /\ \A i \in (e.char_start + 1)..e.char_end : IsWordChar(t[i])
                    /\ (e.char_end = Len(t) \/ ~IsWordChar(t[e.char_end + 1]))
            /\ alTimings[1].start_ms = 0
            /\ alTimings[n].end_ms = d
            /\ \A k \in 1..(n - 1) : alTimings[k].end_ms = alTimings[k + 1].start_ms
            /\ (n = 2 /\ d = 200) =>
                 /\ alTimings[1].start_ms = 0 /\ alTimings[1].end_ms = 100
                 /\ alTimings[2].start_ms = 100 /\ alTimings[2].end_ms = 200

\* two words over 200 ms, the second written after an apostrophe
C10_Witness ==
  /\ alPc = "returned" /\ duration_ms = 200
  /\ transcript_text = <<97, 39, 97>>
  /\ Len(alTimings) = 2 /\ alTimings[2].start_ms = 100

---------------------------------------------------------------------------
(* utils/cleaning.py: the segmenter                                        *)

\* program constant: min_chars of lines 298 and 313
MinChunkChars == 20

BlankLine == <<10, 10>>
Blank == <<32>>

\* _split_into_paragraphs.  re.split(r"\n\s*\n", text) cuts the text at every run
\* of white space that holds two line breaks or more (from its first to its last
\* line break); the parts are stripped and the empty ones dropped.  Whenever the
\* text holds a character that is not white space, parts is not empty and line 207
\* returns it; otherwise lines 210-215 find nothing either and return [].
SplitIntoParagraphs(t) ==
  LET RunOf(i) == SubSeq(t, RunStart(t, i, WhitespaceChars), RunEnd(t, i, WhitespaceChars))
      Breaks(r) == Cardinality({k \in 1..Len(r) : r[k] = 10})
      InSeparator(i) == IsSpace(t[i]) /\ Breaks(RunOf(i)) >= 2
      Starts(i) == ~InSeparator(i) /\ (i = 1 \/ InSeparator(i - 1))
      NotSep == {i \in 1..Len(t) : ~InSeparator(i)}
      starts == SelectSeq(Positions(t), Starts)
      PartEnd(b) == CHOOSE e \in b..Len(t) :
                      /\ (e = Len(t) \/ InSeparator(e + 1))
                      /\ \A k \in b..e : k \in NotSep
      parts == [j \in 1..Len(starts) |-> Strip(SubSeq(t, starts[j], PartEnd(starts[j])))]
      NonEmpty(x) == x # <<>>
  IN SelectSeq(parts, NonEmpty)

\* a variant that cuts every over-long word at maxc and leaves the rest of it out
WrapWords_Truncating(words, k, out, current_chunk, current_len, maxc) ==
  out \o [j \in 1..(Len(words) - k + 1) |->
            SubSeq(words[j + k - 1], 1, Min(maxc, Len(words[j + k - 1])))]

\* lines 243-260: the word loop over words[k..], then the flush of line 259
RECURSIVE WrapWords(_, _, _, _, _, _)
WrapWords(words, k, out, current_chunk, current_len, maxc) ==
  IF k > Len(words)
  THEN IF current_chunk # <<>> THEN Append(out, Join(current_chunk, Blank)) ELSE out
  ELSE LET word == words[k]
           word_len == Len(word) + (IF current_chunk # <<>> THEN 1 ELSE 0)
       IN IF current_len + word_len <= maxc
          THEN WrapWords(words, k + 1, out, Append(current_chunk, word),
                         current_len + word_len, maxc)
          ELSE IF current_chunk # <<>>
          THEN WrapWords(words, k + 1, Append(out, Join(current_chunk, Blank)),
                         <<word>>, Len(word), maxc)
          ELSE WrapWords(words, k + 1, Append(out, SubSeq(word, 1, maxc)),
                         <<SubSeq(word, maxc + 1, Len(word))>>, Len(word) - maxc, maxc)

\* lines 224-262: the paragraph loop over ps[i..], then the flush of line 261
RECURSIVE GreedyLoop(_, _, _, _, _, _)
GreedyLoop(ps, i, out, buf, buf_len, maxc) ==
  IF i > Len(ps)
  THEN IF buf # <<>> THEN Append(out, Join(buf, BlankLine)) ELSE out
  ELSE LET p == ps[i]
       IN IF p = <<>> THEN GreedyLoop(ps, i + 1, out, buf, buf_len, maxc)
          ELSE IF buf_len + Len(p) + (IF buf # <<>> THEN 1 ELSE 0) <= maxc
          THEN GreedyLoop(ps, i + 1, out, Append(buf, p),
                          buf_len + Len(p) + (IF buf_len # 0 THEN 1 ELSE 0), maxc)
          ELSE LET flushed == IF buf # <<>> THEN Append(out, Join(buf, BlankLine)) ELSE out
               IN IF Len(p) <= maxc
                  THEN GreedyLoop(ps, i + 1, Append(flushed, p), <<>>, 0, maxc)
                  ELSE GreedyLoop(ps, i + 1,
                                  WrapWords(SplitWords(p), 1, flushed, <<>>, 0, maxc),
                                  <<>>, 0, maxc)

\* _greedy_chunk
GreedyChunk(ps, maxc) ==
  IF maxc <= 0 THEN ps ELSE GreedyLoop(ps, 1, <<>>, <<>>, 0, maxc)

\* lines 278-282: merge forward from chunk j on
RECURSIVE MergeForward(_, _, _, _)
MergeForward(cs, j, merged, min_chars) ==
  IF j <= Len(cs) /\ Len(Strip(merged)) < min_chars
  THEN MergeForward(cs, j + 1, merged \o BlankLine \o cs[j], min_chars)
  ELSE [j |-> j, merged |-> merged]

\* a variant that keeps a short chunk as it is
EnforceLoop_KeepShort(cs, i, result, min_chars) == result \o SubSeq(cs, i, Len(cs))

\* lines 271-284: the loop over cs[i..]
RECURSIVE EnforceLoop(_, _, _, _)
EnforceLoop(cs, i, result, min_chars) ==
  IF i > Len(cs) THEN result
  ELSE IF Len(Strip(cs[i])) >= min_chars \/ i = Len(cs)
  THEN EnforceLoop(cs, i + 1, Append(result, cs[i]), min_chars)
  ELSE LET m == MergeForward(cs, i + 1, cs[i], min_chars)
       IN EnforceLoop(cs, m.j, Append(result, m.merged), min_chars)

\* _enforce_min_chunk_length
EnforceMinChunkLength(cs, min_chars) ==
  IF min_chars <= 0 \/ cs = <<>> THEN cs ELSE EnforceLoop(cs, 1, <<>>, min_chars)

---------------------------------------------------------------------------
(* The segmenter on its own: specification SegSpec                         *)

\* bound of the model
MaxParas == 3

\* A layout writes a text: k > 0 is a word of k characters that are not white
\* space, 0 a blank, -1 a line break, -2 a blank line.  The characters of the words
\* are numbered through the text (code points from 256 on), so that each occurs once.
RECURSIVE Expand(_, _, _)
Expand(layout, k, next) ==
  IF k > Len(layout) THEN <<>>
  ELSE LET x == layout[k]
           piece == IF x > 0 THEN [i \in 1..x |-> next + i - 1]
                    ELSE IF x = 0 THEN <<32>>
                    ELSE IF x = -1 THEN <<10>>
                    ELSE <<10, 10>>
       IN piece \o Expand(layout, k + 1, next + Max(x, 0))

\* the paragraphs of the model: 4, 20, 49, 50, 60 and 99 characters in one word,
\* and the words of 12 and 13 characters on two lines
SegPool == {<<4>>, <<20>>, <<12, -1, 13>>, <<60>>, <<49>>, <<50>>, <<99>>}
\* the paragraphs given to clean_and_segment_text: words of 4, 49, 50 and 99
\* characters, and two words with two blanks between them, which the normalizer
\* makes one
SegRawPool == {<<4>>, <<49>>, <<50>>, <<99>>, <<12, 0, 0, 13>>}
\* what stands between two paragraphs: a blank line, or two line breaks with a blank
SegSeparators == {<<-2>>, <<-1, 0, -1>>}
\* max_paragraph_chars: chunking disabled, 25, and the least value that
\* PrepareDocumentInput accepts
SegMaxChars == {0, 25, 100}

SegTexts ==
  {Expand(Join(ps, sep), 1, 256) :
     ps \in UNION {[1..n -> SegPool] : n \in 0..MaxParas}, sep \in SegSeparators}

SegRawTexts ==
  {Expand(Join(ps, sep), 1, 256) :
     ps \in UNION {[1..n -> SegRawPool] : n \in 0..MaxParas}, sep \in SegSeparators}

\* the calls of the model: each segmenter with its texts
SegCalls ==
  ({"segment_text_only"} \X SegTexts) \cup ({"clean_and_segment_text"} \X SegRawTexts)

\* the text that the segmenter splits: line 294 in segment_text_only, line 309 in
\* clean_and_segment_text
SegmenterText(fn, raw_text) ==
  IF fn = "clean_and_segment_text" THEN CleanTextForTts(raw_text)
  ELSE UnifyLineEndings(raw_text)

SegInit ==
  /\ segPc = "split"
  /\ \E call \in SegCalls : seg_fn = call[1] /\ seg_text = call[2]
  /\ max_paragraph_chars \in SegMaxChars
  /\ paragraphs = <<>> /\ chunks = <<>> /\ segResult = <<>>

\* lines 294-295 and 309-310
SegSplit ==
  /\ segPc = "split"
  /\ paragraphs' = SplitIntoParagraphs(SegmenterText(seg_fn, seg_text))
  /\ segPc' = "chunk"
  /\ UNCHANGED <<seg_fn, seg_text, max_paragraph_chars, chunks, segResult>>
  /\ UNCHANGED <<orchVars, alVars, clVars, reqVars>>

\* lines 296 and 311
SegGreedyChunk ==
  /\ segPc = "chunk"
  /\ chunks' = GreedyChunk(paragraphs, max_paragraph_chars)
  /\ segPc' = "enforce"
  /\ UNCHANGED <<seg_fn, seg_text, max_paragraph_chars, paragraphs, segResult>>
  /\ UNCHANGED <<orchVars, alVars, clVars, reqVars>>

\* lines 298-299 and 313-314
SegEnforceMin ==
  /\ segPc = "enforce"
  /\ segResult' = EnforceMinChunkLength(chunks, MinChunkChars)
  /\ segPc' = "done"
  /\ UNCHANGED <<seg_fn, seg_text, max_paragraph_chars, paragraphs, chunks>>
  /\ UNCHANGED <<orchVars, alVars, clVars, reqVars>>

SegNext == SegSplit \/ SegGreedyChunk \/ SegEnforceMin

SegSpecInit == OrchIdle /\ SegInit /\ AlignIdle /\ CleanIdle /\ ReqIdle

SegSpec == SegSpecInit /\ [][SegNext]_vars

\* the characters of the chunks that are not white space, in order
NonSpace(c) == ~IsSpace(c)
Content(cs) == SelectSeq(Join(cs, <<>>), NonSpace)

\* C6: with maxChars > 0 every returned chunk except possibly the last is at most
\* maxChars characters long.
C6_ChunksWithinMaxChars ==
  (segPc = "done" /\ max_paragraph_chars > 0) =>
    \A k \in 1..(Len(segResult) - 1) : Len(segResult[k]) <= max_paragraph_chars

\* C7: after the minimum-length enforcement every chunk but the last has at least
\* 20 characters once trimmed; a short chunk is joined with the chunks that follow
\* it by blank lines (nothing else changes, and two chunks that are long enough
\* are never joined); the last chunk is kept whatever its length.
C7_MinChunkLength ==
  segPc = "done" =>
    /\ \A k \in 1..(Len(segResult) - 1) : Len(Strip(segResult[k])) >= MinChunkChars
    /\ Join(segResult, BlankLine) = Join(chunks, BlankLine)
    /\ Len(segResult) <= Len(chunks)
    /\ Len(segResult) >=
         Cardinality({k \in 1..Len(chunks) : Len(Strip(chunks[k])) >= MinChunkChars})
    /\ (chunks # <<>> => segResult # <<>>)

\* three chunks of 4 characters were merged into the only chunk of the result, which
\* is shorter than 20
C7_Witness ==
  /\ segPc = "done" /\ Len(chunks) = 3 /\ Len(segResult) = 1
  /\ Len(segResult[1]) < MinChunkChars

\* C8: the chunks, read in order without their white space, are the paragraphs read
\* in order without their white space: nothing is dropped, repeated or moved.
C8_ContentPreserved ==
  /\ segPc \in {"enforce", "done"} => Content(chunks) = Content(paragraphs)
  /\ segPc = "done" => Content(segResult) = Content(paragraphs)

\* a word of 60 characters was hard-split at 25 and a paragraph wrapped at a word
\* boundary
C8_Witness ==
  /\ segPc = "done" /\ max_paragraph_chars = 25
  /\ \E k \in 1..Len(paragraphs) : Len(paragraphs[k]) = 60
  /\ \E k \in 1..Len(paragraphs) : Len(paragraphs[k]) = 26
  /\ Len(chunks) > Len(paragraphs)

\* C15: the text is split at its blank-line boundaries; a text without such a
\* boundary whose lines give more than one non-empty part is split into these
\* parts; only otherwise is the whole text one paragraph, and a text of white space
\* alone has no paragraph.
C15_ParagraphSplitting ==
  segPc # "split" =>
    LET t == SegmenterText(seg_fn, seg_text)
        Between(i, j) == \A k \in (i + 1)..(j - 1) : IsSpace(t[k])
        boundary == \E i, j \in 1..Len(t) : i < j /\ t[i] = 10 /\ t[j] = 10 /\ Between(i, j)
        InLine == {t[i] : i \in 1..Len(t)} \ {10}
        LineStart(i) == t[i] # 10 /\ (i = 1 \/ t[i - 1] = 10)
        starts == SelectSeq(Positions(t), LineStart)
        stripped == [k \in 1..Len(starts) |->
                       Strip(SubSeq(t, starts[k], RunEnd(t, starts[k], InLine)))]
        NonEmpty(x) == x # <<>>
        lines == SelectSeq(stripped, NonEmpty)
    IN IF boundary
       THEN /\ \A k \in 1..Len(paragraphs) :
                 /\ paragraphs[k] # <<>> /\ Strip(paragraphs[k]) = paragraphs[k]
                 /\ \A i \in 1..(Len(paragraphs[k]) - 1) :
                      ~(paragraphs[k][i] = 10 /\ paragraphs[k][i + 1] = 10)
            /\ Content(paragraphs) = SelectSeq(t, NonSpace)
       ELSE IF Len(lines) > 1 THEN paragraphs = lines
       ELSE IF Strip(t) # <<>> THEN paragraphs = <<Strip(t)>>
       ELSE paragraphs = <<>>

\* C16: with maxChars > 0 every chunk that clean_and_segment_text returns is
\* non-empty, and a text longer than maxChars gives at least two chunks.
C16_LongTextGivesSeveralChunks ==
  (segPc = "done" /\ seg_fn = "clean_and_segment_text" /\ max_paragraph_chars > 0) =>
    /\ \A k \in 1..Len(segResult) : segResult[k] # <<>>
    /\ Len(seg_text) > max_paragraph_chars => Len(segResult) >= 2

---------------------------------------------------------------------------
(* The normalizer on its own: specification CleanSpec                      *)

\* bound of the model
MaxLines == 3

\* the lines of the model: "a", "a-", "Fig. 1 a", "Fig.1", "FIGURE 2", "Page 12",
\* "12", "a  a", the empty line and "+-[3]" written with the plus-minus sign
CleanLines ==
  {<<97>>,
   <<97, 45>>,
   <<70, 105, 103, 46, 32, 49, 32, 97>>,
   <<70, 105, 103, 46, 49>>,
   <<70, 73, 71, 85, 82, 69, 32, 50>>,
   <<80, 97, 103, 101, 32, 49, 50>>,
   <<49, 50>>,
   <<97, 32, 32, 97>>,
   <<>>,
   <<177, 91, 51, 93>>}

\* the line endings of the model: "\n" and "\r\n"
CleanLineEndings == {<<10>>, <<13, 10>>}

CleanTexts ==
  {Join(ls, e) : ls \in UNION {[1..n -> CleanLines] : n \in 0..MaxLines},
                 e \in CleanLineEndings}

CleanInit ==
  /\ clPc = "first"
  /\ cl_raw_text \in CleanTexts
  /\ clean_once = <<>> /\ clean_twice = <<>>

\* clean_text_for_tts(raw_text)
CleanFirst ==
  /\ clPc = "first"
  /\ clean_once' = CleanTextForTts(cl_raw_text)
  /\ clPc' = "second"
  /\ UNCHANGED <<cl_raw_text, clean_twice>>
  /\ UNCHANGED <<orchVars, segVars, alVars, reqVars>>

\* clean_text_for_tts of what the first call returned
CleanSecond ==
  /\ clPc = "second"
  /\ clean_twice' = CleanTextForTts(clean_once)
  /\ clPc' = "done"
  /\ UNCHANGED <<cl_raw_text, clean_once>>
  /\ UNCHANGED <<orchVars, segVars, alVars, reqVars>>

CleanNext == CleanFirst \/ CleanSecond

CleanSpecInit == OrchIdle /\ SegIdle /\ AlignIdle /\ CleanInit /\ ReqIdle

CleanSpec == CleanSpecInit /\ [][CleanNext]_vars

\* C12: the normalizer is idempotent: cleaning a cleaned text changes nothing.
C12_NormalizerIdempotent ==
  clPc = "done" => clean_twice = clean_once

\* the lines of a normalized text, which has no line break but "\n"
OutputLines(s) == SplitLines(s)

\* C17: the normalized text has no line that starts, after leading white space and
\* in any case, with Figure, Table or Fig., and no line that is Page <number> or a
\* bare number.
C17_NoCaptionOrPageLines ==
  clPc \in {"second", "done"} =>
    \A k \in 1..Len(OutputLines(clean_once)) :
      LET x == Strip(OutputLines(clean_once)[k])
      IN /\ \A w \in CaptionWords : ~StartsWithIgnoreCase(x, w)
         /\ ~IsPageMarker(x)
         /\ ~AllDigits(x)

\* C18: the normalized text has no word character, hyphen, line break and word
\* character in sequence, and no two spaces in sequence.
C18_HyphenWrapsRejoined ==
  clPc \in {"second", "done"} =>
    /\ \A i \in 1..(Len(clean_once) - 3) :
         ~(/\ IsWordChar(clean_once[i]) /\ clean_once[i + 1] = 45
           /\ clean_once[i + 2] = 10 /\ IsWordChar(clean_once[i + 3]))
    /\ \A i \in 1..(Len(clean_once) - 1) :
         ~(clean_once[i] = 32 /\ clean_once[i + 1] = 32)

---------------------------------------------------------------------------
(* main.py: handler() from its first line: specification HandlerSpec       *)

\* clean_and_segment_text, cleaning.py lines 302-314
CleanAndSegmentText(raw_text, maxc) ==
  EnforceMinChunkLength(
    GreedyChunk(SplitIntoParagraphs(CleanTextForTts(raw_text)), maxc), MinChunkChars)

\* max_paragraph_chars when the request gives none, line 56
DefaultMaxParagraphChars == 2000
\* sample_rate when the request gives none, line 119
DefaultSampleRate == 24000

\* a request: the keys the handler reads; None is a key that is not there
Request(op, doc_id, paragraph_id, txt, voice, input) ==
  [op |-> op, doc_id |-> doc_id, paragraph_id |-> paragraph_id, text |-> txt,
   voice |-> voice, input |-> input]

\* the dictionary without any of the keys
NoRequest == Request(None, None, None, None, None, None)

\* "Aa.\n\nBb." : two short paragraphs
DocumentText == <<65, 97, 46, 10, 10, 66, 98, 46>>

\* request["input"] of prepare_document.  pdf_base64 is "" (empty), "bad" (not
\* base64), "unreadable" (base64 of what PdfReader rejects) or "good" (a PDF whose
\* pages give DocumentText).
PrepareInput(kind, pdf_base64, raw) ==
  [kind |-> kind, pdf_base64 |-> pdf_base64, raw_text |-> raw]

PrepareInputs ==
  {PrepareInput(None, None, Some(DocumentText)),
   PrepareInput(Some("html"), None, Some(DocumentText)),
   PrepareInput(Some("raw_text"), None, None),
   PrepareInput(Some("raw_text"), None, Some(DocumentText))}
  \cup {PrepareInput(Some("pdf_base64"), b, None) :
          b \in {None, Some(""), Some("bad"), Some("unreadable"), Some("good")}}

DocIds == {None, Some(""), Some("d1")}

Requests ==
  {Request(Some("synthesize_chunk"), d, p, t, v, None) :
     d \in DocIds, p \in {None, Some("p1")},
     t \in {None, Some(<<>>), Some(<<97, 98>>)}, v \in {None, Some("af_heart")}}
  \cup {Request(Some("prepare_document"), d, None, None, None, i) :
          d \in DocIds, i \in {None} \cup {Some(x) : x \in PrepareInputs}}
  \cup {Request(o, None, None, None, None, None) : o \in {None, Some("health"), Some("bogus")}}

\* the argument of handler(): something that is no dictionary, the request itself,
\* or the request under the key "input"
Events ==
  {[mapping |-> FALSE, wrapped |-> FALSE, request |-> NoRequest]}
  \cup {[mapping |-> TRUE, wrapped |-> w, request |-> r] : w \in BOOLEAN, r \in Requests}

HandlerInit ==
  /\ OrchIdle /\ SegIdle /\ AlignIdle /\ CleanIdle
  /\ reqPc = "dispatch"
  /\ event \in {Some(e) : e \in Events}
  /\ input_data = None /\ prep_raw_text = <<>>

\* the handler returns r before any stage is started
ReturnEarly(r) ==
  /\ response' = Some(r)
  /\ reqPc' = "done"
  /\ UNCHANGED <<pc, now, budget_ms, text, sample_rate, cleaned_text, ttsFut, ttsRes,
                 ttsTimeout, ttsSubmitAt, ttsWait, audio, tts_error, alignFut,
                 alignRes, alignTimeout, alignSubmitAt, alignWait, kokoro, w2v2_model>>

\* event.get("input") or event, line 39.  For {"input": request} it is the request
\* (or, the request being empty, the event, which has no further key either).  For
\* a bare request it is the request, unless the request has a key "input" of its
\* own: then it is the value of that key, a dictionary without "op".
InputData(e) ==
  IF e.wrapped THEN e.request
  ELSE IF e.request.input # None THEN NoRequest
  ELSE e.request

\* a variant that answers an unknown op with a code of its own
HandlerDispatch_OwnCode ==
  /\ reqPc = "dispatch"
  /\ input_data' = Some(InputData(event[1]))
  /\ ReturnEarly(Err("UnknownOp", "unknown op"))
  /\ UNCHANGED <<event, prep_raw_text>>
  /\ UNCHANGED <<segVars, alVars, clVars>>

\* lines 39-47, 111 and 243: read the op and dispatch on it
HandlerDispatch ==
  /\ reqPc = "dispatch"
  /\ IF ~event[1].mapping
     THEN \* event.get raises AttributeError, answered by lines 244-259
          /\ ReturnEarly(Err("Internal", "AttributeError"))
          /\ UNCHANGED input_data
     ELSE LET d == InputData(event[1])
          IN /\ input_data' = Some(d)
             /\ IF d.op = Some("health")
                THEN ReturnEarly([ok |-> TRUE, status |-> "ok"])
                ELSE IF d.op = Some("prepare_document")
                THEN reqPc' = "prepare" /\ UNCHANGED orchVars
                ELSE IF d.op = Some("synthesize_chunk")
                THEN reqPc' = "synthesize" /\ UNCHANGED orchVars
                ELSE ReturnEarly(Err("BadInput", "unknown op"))
  /\ UNCHANGED <<event, prep_raw_text>>
  /\ UNCHANGED <<segVars, alVars, clVars>>

\* PrepareDocumentRequest.model_validate(input_data) accepts: doc_id is a string,
\* input is there and its kind is one of the two literals (python_schemas.py 9-27)
ValidPrepare(d) ==
  /\ d.doc_id # None
  /\ d.input # None
  /\ d.input[1].kind \in {Some("pdf_base64"), Some("raw_text")}

\* lines 49-58: validation, then the checks of doc_id and kind
HandlerValidatePrepare ==
  /\ reqPc = "prepare"
  /\ LET d == input_data[1]
     IN IF ~ValidPrepare(d)
        THEN \* model_validate raises ValidationError, answered by lines 244-259
             ReturnEarly(Err("Internal", "ValidationError"))
        ELSE IF d.doc_id = Some("")
        THEN ReturnEarly(Err("BadInput", "doc_id is required"))
        ELSE IF d.input[1].kind \notin {Some("pdf_base64"), Some("raw_text")}
        THEN ReturnEarly(Err("BadInput", "kind must be pdf_base64|raw_text"))
        ELSE reqPc' = "read_input" /\ UNCHANGED orchVars
  /\ UNCHANGED <<event, input_data, prep_raw_text>>
  /\ UNCHANGED <<segVars, alVars, clVars>>

\* lines 59-81: the text of the document, given or extracted from the PDF
HandlerReadInput ==
  /\ reqPc = "read_input"
  /\ LET prep_input == input_data[1].input[1]
     IN IF prep_input.kind = Some("pdf_base64")
        THEN IF prep_input.pdf_base64 \in {None, Some("")}
             THEN ReturnEarly(Err("BadInput", "pdf_base64 missing")) /\ UNCHANGED prep_raw_text
             ELSE IF prep_input.pdf_base64 \in {Some("bad"), Some("unreadable")}
             THEN /\ ReturnEarly(Err("BadInput", "pdf_decode_or_extract_failed"))
                  /\ UNCHANGED prep_raw_text
             ELSE /\ prep_raw_text' = DocumentText
                  /\ reqPc' = "segment" /\ UNCHANGED orchVars
        ELSE /\ prep_raw_text' =
                  (IF prep_input.raw_text = None THEN <<>> ELSE prep_input.raw_text[1])
             /\ reqPc' = "segment" /\ UNCHANGED orchVars
  /\ UNCHANGED <<event, input_data>>
  /\ UNCHANGED <<segVars, alVars, clVars>>

\* lines 82-109: segment the text and build the response; a fault of the response
\* validation is answered by lines 244-259
HandlerSegment ==
  /\ reqPc = "segment"
  /\ \/ ReturnEarly([ok |-> TRUE, doc_id |-> input_data[1].doc_id[1],
                     paragraphs |-> CleanAndSegmentText(prep_raw_text,
                                                        DefaultMaxParagraphChars)])
     \/ ReturnEarly(Err("Internal", "ValidationError"))
  /\ UNCHANGED <<event, input_data, prep_raw_text>>
  /\ UNCHANGED <<segVars, alVars, clVars>>

\* SynthesizeChunkRequest.model_validate(input_data) accepts: doc_id, paragraph_id,
\* text and voice are strings (python_schemas.py 57-66)
ValidSynthesize(d) ==
  d.doc_id # None /\ d.paragraph_id # None /\ d.text # None /\ d.voice # None

\* lines 113-122: validation, then the check that no field is empty; the request
\* that passes goes on at line 123
HandlerValidateSynthesize ==
  /\ reqPc = "synthesize"
  /\ LET d == input_data[1]
     IN IF ~ValidSynthesize(d)
        THEN ReturnEarly(Err("Internal", "ValidationError"))
        ELSE IF d.doc_id = Some("") \/ d.paragraph_id = Some("") \/ d.text = Some(<<>>)
        THEN ReturnEarly(Err("BadInput", "doc_id, paragraph_id, text are required"))
        ELSE /\ reqPc' = "stages"
             /\ pc' = "start" /\ now' = 0
             /\ budget_ms' \in Budgets
             /\ text' = d.text[1]
             /\ sample_rate' = DefaultSampleRate
             /\ UNCHANGED <<cleaned_text, ttsFut, ttsRes, ttsTimeout, ttsSubmitAt,
                            ttsWait, audio, tts_error, alignFut, alignRes,
                            alignTimeout, alignSubmitAt, alignWait, response,
                            kokoro, w2v2_model>>
  /\ UNCHANGED <<event, input_data, prep_raw_text>>
  /\ UNCHANGED <<segVars, alVars, clVars>>

HandlerNext ==
  \/ HandlerDispatch
  \/ HandlerValidatePrepare
  \/ HandlerReadInput
  \/ HandlerSegment
  \/ HandlerValidateSynthesize
  \/ Next

HandlerSpec == HandlerInit /\ [][HandlerNext]_vars

\* code of ErrorResponse, python_schemas.py lines 89-96
ErrorCodes == {"BadInput", "Timeout", "ModelLoad", "AlignError", "AlignWarning", "Internal"}

\* C13: a prepare_document or synthesize_chunk request with a required field
\* missing or malformed, a prepare_document request whose kind is neither
\* pdf_base64 nor raw_text, and a pdf_base64 payload that cannot be decoded or
\* extracted are each answered with the code BadInput.
C13_BadRequestsAreBadInput ==
  (response # None /\ input_data # None) =>
    LET d == input_data[1]
        synth == d.op = Some("synthesize_chunk")
        prep == d.op = Some("prepare_document")
        Absent(v) == v \in {None, Some(""), Some(<<>>)}
        missing ==
          \/ synth /\ (Absent(d.doc_id) \/ Absent(d.paragraph_id) \/ Absent(d.text)
                         \/ Absent(d.voice))
          \/ prep /\ (Absent(d.doc_id) \/ d.input = None)
        badKind == prep /\ d.input # None
                     /\ d.input[1].kind \notin {Some("pdf_base64"), Some("raw_text")}
        badPdf == prep /\ d.input # None /\ d.input[1].kind = Some("pdf_base64")
                    /\ d.input[1].pdf_base64 \in {None, Some(""), Some("bad"),
                                                  Some("unreadable")}
    IN (missing \/ badKind \/ badPdf) =>
         (~response[1].ok /\ response[1].code = "BadInput")

\* C14: whatever the event and whatever fails, what handler returns is an ok: true
\* body or exactly {ok: false, code, message} with a code of ErrorCodes; the
\* faults that no stage classifies (an event that is no dictionary, a failed
\* validation of the request or of the response, a failed encoding) are answered
\* with Internal.
C14_EveryFaultIsAnEnvelope ==
  /\ response # None =>
       LET r == response[1]
       IN \/ r.ok
          \/ /\ DOMAIN r = {"ok", "code", "message"}
             /\ r.code \in ErrorCodes
             /\ (r.message \in {"AttributeError", "ValidationError", "encode"}
                   <=> r.code = "Internal")
  /\ (reqPc = "done" /\ ~event[1].mapping) =>
       response = Some(Err("Internal", "AttributeError"))
  /\ (reqPc = "done" /\ input_data # None) =>
       LET d == input_data[1]
       IN /\ (d.op = Some("prepare_document") /\ ~ValidPrepare(d)) =>
               response = Some(Err("Internal", "ValidationError"))
          /\ (d.op = Some("synthesize_chunk") /\ ~ValidSynthesize(d)) =>
               response = Some(Err("Internal", "ValidationError"))
  /\ reqPc \in {"done", "stages"} \/ response = None
  /\ (reqPc = "stages" /\ pc = "done") => response # None

\* the event was no dictionary and the handler has answered Internal
C14_Witness ==
  /\ reqPc = "done" /\ ~event[1].mapping
  /\ response = Some(Err("Internal", "AttributeError"))

===========================================================================
